---- MODULE Spec2Model ----
(***************************************************************************)
(* server-health-api (main.go): configuration load and validation, the     *)
(* server start/shutdown lifecycle, the Basic-auth gate and the three      *)
(* checkers run by the /healthy handler, with concurrent requests.         *)
(***************************************************************************)
EXTENDS Integers, Sequences, FiniteSets, TLC

\* ---------------------------------------------------------------- bounds
MaxTargets == 2      \* most targets (ports + services + endpoints) in one config file
NumRequests == 2     \* requests the clients send during one run
MaxNameLen == 2      \* longest service name, in characters
MaxStatuses == 1     \* longest `statuses` list of an endpoint
MaxLifeTargets == 1  \* most targets in a config file of the lifecycle runs
MaxLoadTargets == 1  \* longest port and endpoint lists of the files given to the loader

\* ------------------------------------------------------ program constants
MaxPort == 65535
StatusOK == 200
StatusInternalServerError == 500
StatusUnauthorized == 401

Requests == 1..NumRequests

SeqUpTo(S, n) == UNION {[1..k -> S] : k \in 0..n}

\* ------------------------------------------------------------ strings
\* A string whose characters matter is a sequence of one-character strings.
Lower == {"a","b","c","d","e","f","g","h","i","j","k","l","m",
          "n","o","p","q","r","s","t","u","v","w","x","y","z"}
Upper == {"A","B","C","D","E","F","G","H","I","J","K","L","M",
          "N","O","P","Q","R","S","T","U","V","W","X","Y","Z"}
Digits == {"0","1","2","3","4","5","6","7","8","9"}

\* regexp `^[a-zA-Z0-9@:._-]+$`
serviceNameClass == Lower \cup Upper \cup Digits \cup {"@", ":", ".", "_", "-"}

serviceNameLoose(name) == TRUE

serviceNameRegex(name) ==
    /\ Len(name) >= 1
    /\ \A k \in 1..Len(name) : name[k] \in serviceNameClass

DigitVal(c) == CHOOSE d \in 0..9 : ToString(d) = c

RECURSIVE AtoiDigits(_)
AtoiDigits(s) ==
    IF s = <<>> THEN 0
    ELSE 10 * AtoiDigits(SubSeq(s, 1, Len(s) - 1)) + DigitVal(s[Len(s)])

\* strconv.Atoi: an optional sign, then one or more decimal digits.
AtoiOK(s) ==
    LET body == IF s # <<>> /\ s[1] \in {"+", "-"} THEN Tail(s) ELSE s
    IN  /\ body # <<>>
        /\ \A k \in 1..Len(body) : body[k] \in Digits

Atoi(s) ==
    IF s[1] = "-" THEN 0 - AtoiDigits(Tail(s))
    ELSE IF s[1] = "+" THEN AtoiDigits(Tail(s))
    ELSE AtoiDigits(s)

WhiteSpace == {" ", "LF", "TAB"}

RECURSIVE TrimLeft(_)
TrimLeft(s) ==
    IF s # <<>> /\ s[1] \in WhiteSpace THEN TrimLeft(Tail(s)) ELSE s

RECURSIVE TrimRight(_)
TrimRight(s) ==
    IF s # <<>> /\ s[Len(s)] \in WhiteSpace
    THEN TrimRight(SubSeq(s, 1, Len(s) - 1)) ELSE s

\* strings.TrimSpace over a sequence of tokens (a word, or one white-space character)
TrimSpace(s) == TrimRight(TrimLeft(s))

\* A URL is a sequence of tokens; url.Parse rejects a missing scheme before the
\* first colon, a malformed percent escape and a control character.
urlParseOK(u) ==
    /\ ~(Len(u) >= 1 /\ u[1] = ":")
    /\ \A k \in 1..Len(u) : u[k] \notin {"%zz", "CTL"}

HasPrefix(u, p) == Len(u) >= 1 /\ u[1] = p

\* subtle.ConstantTimeCompare: 1 iff the two byte strings are equal
ConstantTimeCompare(x, y) == IF x = y THEN 1 ELSE 0

\* ------------------------------------------------------------ slices
\* A Go slice of ints: its length and its backing array (whose length is the capacity).
sliceCapSpare(l) == l + 1

\* yaml.v2 decodes a sequence of l nodes into reflect.MakeSlice(t, l, l)
sliceCap(l) == l

MakeSlice(vals) ==
    [len |-> Len(vals),
     array |-> [j \in 1..sliceCap(Len(vals)) |-> IF j <= Len(vals) THEN vals[j] ELSE 0]]

\* append(s, v): in place when there is spare capacity, else into a fresh array
appendInPlace(s) == s.len < Len(s.array)

appendInt(s, v) ==
    IF appendInPlace(s)
    THEN [len |-> s.len + 1, array |-> [s.array EXCEPT ![s.len + 1] = v]]
    ELSE [len |-> s.len + 1, array |-> SubSeq(s.array, 1, s.len) \o <<v>>]

writesConfigAlways(s) == TRUE

\* statuses := append(endpoint.Statuses, endpoint.Status) stores into the array that
\* endpoint.Statuses shares with the configuration iff append works in place
writesConfig(s) == appendInPlace(s)

containsFirstOnly(numbers, target) == numbers.len >= 1 /\ numbers.array[1] = target

contains(numbers, target) == \E j \in 1..numbers.len : numbers.array[j] = target

\* ------------------------------------------------------------ config
NoAuth == [enabled |-> FALSE, username |-> "user", password |-> "pass"]

Unmarshal(f) ==
    [listenPort |-> f.listenPort,
     auth |-> f.auth,
     ports |-> f.ports,
     services |-> f.services,
     endpoints |-> [k \in 1..Len(f.endpoints) |->
        [name |-> f.endpoints[k].name, url |-> f.endpoints[k].url,
         status |-> f.endpoints[k].status,
         statuses |-> MakeSlice(f.endpoints[k].statuses)]]]

\* Config.Validate: TRUE iff it returns nil
Validate(c) ==
    /\ ~(c.listenPort < 1 \/ c.listenPort > MaxPort)
    /\ \A k \in 1..Len(c.ports) : ~(c.ports[k].port < 1 \/ c.ports[k].port > MaxPort)
    /\ \A k \in 1..Len(c.endpoints) : urlParseOK(c.endpoints[k].url)

Unset == <<"unset">>

\* GetEnvInt(key, fallback)
GetEnvIntOK(value) == value = Unset \/ AtoiOK(value)

GetEnvInt(value, fallback) == IF value = Unset THEN fallback ELSE Atoi(value)

\* net.Listen accepts ports 0..65535; port 0 asks the OS for a free port
listenPortAccepted(p) == p >= 0 /\ p <= MaxPort

\* ------------------------------------------------------------ state
VARIABLES
    env,        \* what the process is started with and runs against (never changes)
    config,     \* *Config returned by readConfig
    pcMain,     \* where the main goroutine is
    pcSrv,      \* where the server goroutine is
    exited,     \* the process has exited
    exitCode,   \* its exit code, once exited
    req,        \* per request: the handler's position and local variables
    messages,   \* the message buffers, by buffer
    resp        \* per request: what was written to the ResponseWriter

vars == <<env, config, pcMain, pcSrv, exited, exitCode, req, messages, resp>>

NoConfig == Unmarshal([listenPort |-> 0, auth |-> NoAuth, ports |-> <<>>,
                       services |-> <<>>, endpoints |-> <<>>])

NoCreds == [ok |-> FALSE, username |-> "", password |-> ""]

NoResponse == [code |-> 0, status |-> "", messages |-> <<>>, challenge |-> ""]

IdleRequest == [pc |-> "idle", creds |-> NoCreds, i |-> 0, errCount |-> 0, probes |-> <<>>]

\* l := fmt.Sprintf("%s:%d", ..., GetEnvInt("HEALTH_LISTEN_PORT", config.Config.Listen.Port))
listenAddrPort == GetEnvInt(env.listenPortEnv, config.listenPort)

\* requests whose handler has started and not yet returned
InFlight == {r \in Requests : req[r].pc \notin {"idle", "done"}}

\* ------------------------------------------------------------ main
Fatal ==
    /\ exited' = TRUE
    /\ exitCode' = 1

\* main, lines 73-76: readConfig (ReadFile, Unmarshal, Validate) or log.Fatalf
readConfig ==
    /\ ~exited /\ pcMain = "load"
    /\ LET c == Unmarshal(env.file)
       IN  IF Validate(c)
           THEN /\ config' = c
                /\ pcMain' = "registered"
                /\ UNCHANGED <<exited, exitCode>>
           ELSE /\ Fatal
                /\ UNCHANGED <<config, pcMain>>
    /\ UNCHANGED <<env, pcSrv, req, messages, resp>>

\* main, lines 78-115: register the handler, build the listen address (GetEnvInt may
\* log.Fatalf), start the server goroutine and wait on the quit channel
startServer ==
    /\ ~exited /\ pcMain = "registered"
    /\ IF GetEnvIntOK(env.listenPortEnv)
       THEN /\ pcMain' = "wait"
            /\ pcSrv' = "starting"
            /\ UNCHANGED <<exited, exitCode>>
       ELSE /\ Fatal
            /\ UNCHANGED <<pcMain, pcSrv>>
    /\ UNCHANGED <<env, config, req, messages, resp>>

\* server goroutine, lines 103-107: ListenAndServe binds and serves, or returns
\* ErrServerClosed at once when Shutdown has already been called
ListenAndServe ==
    /\ ~exited /\ pcSrv = "starting"
    /\ IF pcMain = "shutdown"
       THEN pcSrv' = "closed"
       ELSE /\ listenPortAccepted(listenAddrPort)
            /\ pcSrv' = "serving"
    /\ UNCHANGED <<env, config, pcMain, exited, exitCode, req, messages, resp>>

\* server goroutine, lines 108-110: the listener cannot be bound (address in use,
\* invalid port, unreadable certificate): log.Fatalf
ListenFail ==
    /\ ~exited /\ pcSrv = "starting" /\ pcMain # "shutdown"
    /\ Fatal
    /\ UNCHANGED <<env, config, pcMain, pcSrv, req, messages, resp>>

\* main, lines 116-121: a SIGINT/SIGTERM arrives on quit; server.Shutdown closes the
\* listener, so a serving ListenAndServe returns ErrServerClosed
Signal ==
    /\ ~exited /\ pcMain = "wait"
    /\ pcMain' = "shutdown"
    /\ pcSrv' = IF pcSrv = "serving" THEN "closed" ELSE pcSrv
    /\ UNCHANGED <<env, config, exited, exitCode, req, messages, resp>>

shutdownExitIgnoringErr(timedOut) == 0

\* lines 121-125: log.Fatal (exit 1) when Shutdown returned an error, else return from main
shutdownExit(timedOut) == IF timedOut THEN 1 ELSE 0

\* server.Shutdown returns nil once no request is in flight
ShutdownReturn ==
    /\ ~exited /\ pcMain = "shutdown"
    /\ InFlight = {}
    /\ exited' = TRUE
    /\ exitCode' = shutdownExit(FALSE)
    /\ UNCHANGED <<env, config, pcMain, pcSrv, req, messages, resp>>

\* the 5-second context expires while requests are still in flight: Shutdown returns ctx.Err()
ShutdownTimeout ==
    /\ ~exited /\ pcMain = "shutdown"
    /\ InFlight # {}
    /\ exited' = TRUE
    /\ exitCode' = shutdownExit(TRUE)
    /\ UNCHANGED <<env, config, pcMain, pcSrv, req, messages, resp>>

\* ------------------------------------------------------------ /healthy
\* the formats given to addToOutputMessages; a message is the format with its arguments
PortUp == "Port Name: %s, Port: %d is available"
PortDown == "Port Name: %s, Port: %d is not available"
ServiceInvalid == "Service Name: %s is invalid"
ServiceUp == "Service Name: %s, Status: %s is as expected"
ServiceDown == "Service Name: %s, Expected Status: %s, Actual Status: %s"
EndpointUnreachable == "Endpoint Name: %s, URL: %s is not reachable"
EndpointUp == "Endpoint Name: %s, URL: %s, Status: %d is as expected"
EndpointDown == "Endpoint Name: %s, URL: %s, Status: %d is not as expected, got: %d"

\* messages := []string{}: the buffer the handler of request r appends to
messagesShared(r) == 1

messagesRef(r) == r

addToOutputMessagesFront(buf, message) == <<message>> \o buf

\* *messages = append(*messages, message)
addToOutputMessages(buf, message) == Append(buf, message)

Healthy == [code |-> StatusOK, status |-> "Server is healthy"]

Unhealthy == [code |-> StatusInternalServerError, status |-> "Server is unhealthy"]

Response(verdict, msgs) ==
    [code |-> verdict.code, status |-> verdict.status, messages |-> msgs, challenge |-> ""]

\* w.Header().Set("WWW-Authenticate", ...); http.Error(w, "Unauthorized", 401)
Unauthorized ==
    [code |-> StatusUnauthorized, status |-> "Unauthorized", messages |-> <<>>,
     challenge |-> "Basic realm=Restricted"]

TargetsOf(stage) ==
    IF stage = "ports" THEN config.ports
    ELSE IF stage = "services" THEN config.services
    ELSE IF stage = "endpoints" THEN config.endpoints
    ELSE <<>>

checkerReturnAlways(errCount) == TRUE

\* return errCount == 0
checkerReturn(errCount) == errCount = 0

\* !checkPorts(..) || !checkServices(..) || !checkEndpoints(..): where the handler
\* goes once the checker `stage` has returned ok
nextChecker(stage, ok) ==
    IF ~ok THEN "unhealthy"
    ELSE IF stage = "ports" THEN "services"
    ELSE IF stage = "services" THEN "endpoints"
    ELSE "healthy"

firstChecker == "ports"

\* Runs the handler on from (stage, i, errCount) up to its next probe: a loop that has
\* no target left returns, and the condition of line 81 picks the next checker or the verdict.
RECURSIVE Settle(_, _, _)
Settle(stage, i, errCount) ==
    IF stage \in {"healthy", "unhealthy"}
    THEN [pc |-> stage, i |-> 0, errCount |-> 0]
    ELSE IF i <= Len(TargetsOf(stage))
    THEN [pc |-> stage, i |-> i, errCount |-> errCount]
    ELSE Settle(nextChecker(stage, checkerReturn(errCount)), 1, 0)

\* The handler of r continues from (stage, i, errCount) with buffers bufs and probe
\* log `log`; when the verdict is reached the response is written (lines 82-89).
Continue(r, creds, stage, i, errCount, log, bufs) ==
    LET s == Settle(stage, i, errCount)
        done == s.pc \in {"healthy", "unhealthy"}
    IN  /\ req' = [req EXCEPT ![r] =
                    [pc |-> IF done THEN "done" ELSE s.pc, creds |-> creds,
                     i |-> s.i, errCount |-> s.errCount, probes |-> log]]
        /\ messages' = bufs
        /\ resp' = IF done
                   THEN [resp EXCEPT ![r] =
                           Response(IF s.pc = "healthy" THEN Healthy ELSE Unhealthy,
                                    bufs[messagesRef(r)])]
                   ELSE resp

authorizedNoOkCheck(auth, creds) ==
    ~auth.enabled
    \/ (/\ ConstantTimeCompare(creds.username, auth.username) = 1
        /\ ConstantTimeCompare(creds.password, auth.password) = 1)

\* basicAuthMiddleware: TRUE iff next(w, r) is called
authorized(auth, creds) ==
    IF auth.enabled
    THEN LET userMatch == ConstantTimeCompare(creds.username, auth.username) = 1
             passMatch == ConstantTimeCompare(creds.password, auth.password) = 1
         IN  ~(~creds.ok \/ ~userMatch \/ ~passMatch)
    ELSE TRUE

\* A request is accepted (in arrival order) and passes through basicAuthMiddleware;
\* when authorized the handler starts with an empty buffer.
basicAuthMiddleware(r) ==
    /\ ~exited /\ pcSrv = "serving"
    /\ req[r].pc = "idle"
    /\ IF r = 1 THEN TRUE ELSE req[r - 1].pc # "idle"
    /\ \E creds \in env.offered :
         IF authorized(config.auth, creds)
         THEN Continue(r, creds, firstChecker, 1, 0, <<>>,
                       [messages EXCEPT ![messagesRef(r)] = <<>>])
         ELSE /\ req' = [req EXCEPT ![r] = [IdleRequest EXCEPT !.pc = "done", !.creds = creds]]
              /\ resp' = [resp EXCEPT ![r] = Unauthorized]
              /\ UNCHANGED messages
    /\ UNCHANGED <<env, config, pcMain, pcSrv, exited, exitCode>>

Probe(kind, i, pass, via, message) ==
    [kind |-> kind, idx |-> i, pass |-> pass, via |-> via, message |-> message]

Step(r, pass, via, message) ==
    LET q == req[r]
    IN  Continue(r, q.creds, q.pc, q.i + 1,
                 IF pass THEN q.errCount ELSE q.errCount + 1,
                 Append(q.probes, Probe(q.pc, q.i, pass, via, message)),
                 [messages EXCEPT ![messagesRef(r)] = addToOutputMessages(@, message)])

\* one iteration of the loop of checkPorts: net.DialTimeout succeeds or fails
checkPorts(r) ==
    /\ ~exited /\ req[r].pc = "ports"
    /\ LET port == config.ports[req[r].i]
       IN  \E dialed \in BOOLEAN :
             Step(r, dialed, "dial",
                  IF dialed
                  THEN <<PortUp, port.name, port.port>>
                  ELSE <<PortDown, port.name, port.port>>)
    /\ UNCHANGED <<env, config, pcMain, pcSrv, exited, exitCode>>

\* what `systemctl is-active` can print, and whether cmd.Output returns an error
SystemctlResults ==
    { [output |-> <<"active", "LF">>, err |-> FALSE],
      [output |-> <<"inactive", "LF">>, err |-> TRUE],
      [output |-> <<>>, err |-> TRUE] }

\* one iteration of the loop of checkServices
checkServices(r) ==
    /\ ~exited /\ req[r].pc = "services"
    /\ LET service == config.services[req[r].i]
       IN  IF ~serviceNameRegex(service.name)
           THEN Step(r, FALSE, "none", <<ServiceInvalid, service.name>>)
           ELSE \E out \in SystemctlResults :
                  LET status == TrimSpace(out.output)
                  IN  IF out.err \/ status # <<service.status>>
                      THEN Step(r, FALSE, "systemctl",
                                <<ServiceDown,
                                  service.name, service.status, status>>)
                      ELSE Step(r, TRUE, "systemctl",
                                <<ServiceUp,
                                  service.name, service.status>>)
    /\ UNCHANGED <<env, config, pcMain, pcSrv, exited, exitCode>>

\* one iteration of the loop of checkEndpoints; append(endpoint.Statuses, endpoint.Status)
\* writes into the backing array the configuration holds when it has spare capacity
checkEndpoints(r) ==
    /\ ~exited /\ req[r].pc = "endpoints"
    /\ LET k == req[r].i
           endpoint == config.endpoints[k]
           client == IF HasPrefix(endpoint.url, "https://") THEN "httpsClient" ELSE "httpClient"
       IN  \/ /\ Step(r, FALSE, client,
                      <<EndpointUnreachable,
                        endpoint.name, endpoint.url>>)
              /\ UNCHANGED config
           \/ \E code \in env.codes :
                LET statuses == appendInt(endpoint.statuses, endpoint.status)
                IN  /\ config' = IF writesConfig(endpoint.statuses)
                                 THEN [config EXCEPT !.endpoints[k].statuses.array = statuses.array]
                                 ELSE config
                    /\ IF contains(statuses, code)
                       THEN Step(r, TRUE, client,
                                 <<EndpointUp,
                                   endpoint.name, endpoint.url, code>>)
                       ELSE Step(r, FALSE, client,
                                 <<EndpointDown,
                                   endpoint.name, endpoint.url, endpoint.status, code>>)
    /\ UNCHANGED <<env, pcMain, pcSrv, exited, exitCode>>

\* ------------------------------------------------------------ inputs
PortsServe == {[name |-> "ssh", port |-> 22], [name |-> "web", port |-> 80]}

ServicesServe == {[name |-> <<"d", "b">>, status |-> "active"],
                  [name |-> <<"d", ";">>, status |-> "active"]}

EndpointsServe ==
    {[name |-> "api", url |-> <<"http://", "host">>, status |-> 200, statuses |-> <<301>>]}

File(listenPort, auth, ports, services, endpoints) ==
    [listenPort |-> listenPort, auth |-> auth, ports |-> ports,
     services |-> services, endpoints |-> endpoints]

\* config files that validate, with at most n targets, no auth
FilesUpTo(n) ==
    {File(8080, NoAuth, p, s, e) :
        <<p, s, e>> \in {t \in SeqUpTo(PortsServe, n)
                                \X SeqUpTo(ServicesServe, n)
                                \X SeqUpTo(EndpointsServe, n) :
                            Len(t[1]) + Len(t[2]) + Len(t[3]) <= n}}

ServeEnvsOf(files) ==
    {[file |-> f, listenPortEnv |-> Unset, offered |-> {NoCreds}, codes |-> {200, 404}] :
        f \in files}

ServeEnvs == ServeEnvsOf(FilesUpTo(MaxTargets))

LifeEnvs == ServeEnvsOf(FilesUpTo(MaxLifeTargets))

AuthConfigs ==
    {NoAuth,
     [enabled |-> TRUE, username |-> "admin", password |-> "secret"],
     [enabled |-> TRUE, username |-> "", password |-> ""]}

Credentials ==
    {NoCreds, [ok |-> TRUE, username |-> "", password |-> ""]}
    \cup {[ok |-> TRUE, username |-> u, password |-> p] :
            u \in {"admin", "eve"}, p \in {"secret", "guess"}}

GateEnvs ==
    {[file |-> File(8080, a, <<[name |-> "ssh", port |-> 22]>>, <<>>, <<>>),
      listenPortEnv |-> Unset, offered |-> Credentials, codes |-> {200}] :
        a \in AuthConfigs}

NameChars == {"d", "Z", "7", "@", "-", ";", " ", "/"}

ProbeFiles ==
    {File(8080, NoAuth, <<>>, <<[name |-> n, status |-> st]>>, <<>>) :
        n \in SeqUpTo(NameChars, MaxNameLen), st \in {"active", "inactive"}}
    \cup
    {File(8080, NoAuth, <<>>, <<>>,
          <<[name |-> "api", url |-> <<scheme, "host">>, status |-> st, statuses |-> sts]>>) :
        scheme \in {"http://", "https://"}, st \in {200, 301},
        sts \in SeqUpTo({301, 404}, MaxStatuses)}

ProbeEnvs ==
    {[file |-> f, listenPortEnv |-> Unset, offered |-> {NoCreds}, codes |-> {200, 301, 404}] :
        f \in ProbeFiles}

EnvValues ==
    {Unset, <<>>, <<"x">>, <<"0">>, <<"-", "1">>, <<"7", "6", "5", "4">>,
     <<"7", "0", "0", "0", "0">>}

LoadFiles ==
    {File(lp, NoAuth, p, <<>>, e) :
        lp \in {0, 8080, 65536},
        p \in SeqUpTo({[name |-> "p", port |-> n] : n \in {0, 22, 65536}}, MaxLoadTargets),
        e \in SeqUpTo({[name |-> "e", url |-> u, status |-> 200, statuses |-> <<>>] :
                         u \in {<<"http://", "host">>, <<"http://", "host", "%zz">>,
                                <<":", "host">>}}, MaxLoadTargets)}

LoadEnvs ==
    {[file |-> f, listenPortEnv |-> v, offered |-> {NoCreds}, codes |-> {200}] :
        f \in LoadFiles, v \in EnvValues}

\* ------------------------------------------------------------ specifications
InitWith(envs) ==
    /\ env \in envs
    /\ config = NoConfig
    /\ pcMain = "load"
    /\ pcSrv = "none"
    /\ exited = FALSE
    /\ exitCode = 0
    /\ req = [r \in Requests |-> IdleRequest]
    /\ messages = [r \in Requests |-> <<>>]
    /\ resp = [r \in Requests |-> NoResponse]

Init == InitWith(ServeEnvs)

InitLife == InitWith(LifeEnvs)

InitInputs == InitWith(GateEnvs \cup ProbeEnvs \cup LoadEnvs)

Next ==
    \/ readConfig
    \/ startServer
    \/ ListenAndServe
    \/ ListenFail
    \/ Signal
    \/ ShutdownReturn
    \/ ShutdownTimeout
    \/ \E r \in Requests : basicAuthMiddleware(r)
    \/ \E r \in Requests : checkPorts(r)
    \/ \E r \in Requests : checkServices(r)
    \/ \E r \in Requests : checkEndpoints(r)

\* requests on concurrent connections against one validated configuration
Spec == Init /\ [][Next]_vars

\* the same program over the input space of the gate, the probes and the loader
SpecInputs == InitInputs /\ [][Next]_vars

\* Shutdown returns when the server is idle, and the context's timer fires
LiveSpec ==
    InitLife /\ [][Next]_vars /\ WF_vars(ShutdownReturn) /\ WF_vars(ShutdownTimeout)

\* ------------------------------------------------------------ properties
Pipeline == {"ports", "services", "endpoints"}

\* the handler of r has written its health response
Answered(r) == req[r].pc = "done" /\ resp[r].code # StatusUnauthorized

TotalTargets == Len(config.ports) + Len(config.services) + Len(config.endpoints)

\* the messages of r's own probes, in the order r made them
OwnMessages(r) == [k \in 1..Len(req[r].probes) |-> req[r].probes[k].message]

\* every configured target has a passing probe of request r
AllTargetsPass(r) ==
    \A stage \in Pipeline : \A k \in 1..Len(TargetsOf(stage)) :
        \E j \in 1..Len(req[r].probes) :
            /\ req[r].probes[j].kind = stage
            /\ req[r].probes[j].idx = k
            /\ req[r].probes[j].pass

\* C1: every health response carries exactly one message per configured target
\* (ports + services + endpoints), whichever targets pass or fail.
C1_OneMessagePerTarget ==
    \A r \in Requests : Answered(r) => Len(resp[r].messages) = TotalTargets

\* C2: a health response is 200 "Server is healthy" iff every configured target
\* passed its probe, and 500 "Server is unhealthy" in every other case.
C2_StatusIffAllPass ==
    \A r \in Requests :
        Answered(r) =>
            IF AllTargetsPass(r)
            THEN resp[r].code = 200 /\ resp[r].status = "Server is healthy"
            ELSE resp[r].code = 500 /\ resp[r].status = "Server is unhealthy"

C2_Witness ==
    /\ TotalTargets >= 2
    /\ resp[1].code = 200 /\ AllTargetsPass(1)
    /\ resp[2].code = 500 /\ ~AllTargetsPass(2)

\* the credentials of r are the configured ones
CredentialsMatch(r) ==
    /\ req[r].creds.ok
    /\ req[r].creds.username = config.auth.username
    /\ req[r].creds.password = config.auth.password

\* C3: with auth enabled, missing or wrong credentials get 401 with the challenge and
\* no probe runs; a request reaches the checkers only with auth disabled or both
\* credentials equal to the configured ones.
C3_AuthGate ==
    \A r \in Requests :
        req[r].pc # "idle" =>
            IF config.auth.enabled /\ ~CredentialsMatch(r)
            THEN /\ req[r].pc = "done"
                 /\ resp[r].code = 401
                 /\ resp[r].challenge = "Basic realm=Restricted"
                 /\ resp[r].messages = <<>>
                 /\ req[r].probes = <<>>
            ELSE /\ resp[r].code # 401
                 /\ req[r].pc = "done" => resp[r].code \in {200, 500}

C3_Witness ==
    /\ config.auth.enabled
    /\ \E r1, r2 \in Requests :
        /\ req[r1].creds.ok
        /\ req[r1].creds.username = config.auth.username
        /\ req[r1].creds.password # config.auth.password
        /\ resp[r1].code = 401
        /\ CredentialsMatch(r2)
        /\ req[r2].probes # <<>>
        /\ resp[r2].code = 200

\* C4: under any interleaving of concurrent requests, the buffer and the response of a
\* request hold exactly the messages of its own probes, in its own order.
C4_RequestLocalMessages ==
    \A r \in Requests :
        /\ req[r].pc \in Pipeline => messages[r] = OwnMessages(r)
        /\ Answered(r) => resp[r].messages = OwnMessages(r)

C4_Witness ==
    /\ req[1].pc \in Pipeline /\ req[2].pc \in Pipeline
    /\ messages[1] # <<>> /\ messages[2] # <<>>
    /\ messages[1] # messages[2]

\* the server lifecycle, read off the two goroutines
Lifecycle ==
    IF exited THEN "Stopped"
    ELSE IF pcMain = "shutdown" THEN "Draining"
    ELSE IF pcSrv = "serving" THEN "Serving"
    ELSE "Starting"

StrictMove ==
    \/ Lifecycle' = Lifecycle
    \/ Lifecycle = "Starting" /\ Lifecycle' = "Serving"
    \/ Lifecycle = "Serving" /\ Lifecycle' = "Draining"
    \/ Lifecycle = "Draining" /\ Lifecycle' = "Stopped"
    \/ Lifecycle = "Starting" /\ Lifecycle' = "Stopped" /\ exitCode' # 0

\* a signal that arrives before the listener is bound starts the shutdown at once
EarlySignalMove == Lifecycle = "Starting" /\ Lifecycle' = "Draining"

ExitCodes ==
    exited =>
        IF pcMain = "shutdown"
        THEN (exitCode = 0 <=> InFlight = {}) /\ (exitCode # 0 <=> InFlight # {})
        ELSE /\ exitCode # 0
             /\ pcSrv \notin {"serving", "closed"}
             /\ \A r \in Requests : req[r].pc = "idle"

AllowListed(name) ==
    /\ name # <<>>
    /\ \A k \in 1..Len(name) :
          name[k] \in Lower \cup Upper \cup Digits \cup {"@", ":", ".", "_", "-"}

\* C6: in checkServices a name outside the allow-list is a failure with exactly one
\* "is invalid" message and no service-manager query; the query runs only for names
\* that match.
C6_InvalidNameNotQueried ==
    \A r \in Requests : \A j \in 1..Len(req[r].probes) :
        LET p == req[r].probes[j]
            name == config.services[p.idx].name
        IN  p.kind = "services" =>
              IF AllowListed(name)
              THEN p.via = "systemctl"
              ELSE /\ p.via = "none"
                   /\ ~p.pass
                   /\ req[r].pc \in Pipeline =>
                        /\ Len(messages[r]) = Len(req[r].probes)
                        /\ messages[r][j] = <<ServiceInvalid, name>>
                   /\ Answered(r) =>
                        /\ resp[r].code = 500
                        /\ Len(resp[r].messages) = Len(req[r].probes)
                        /\ resp[r].messages[j] = <<ServiceInvalid, name>>

C6_Witness ==
    \E r \in Requests :
        /\ Answered(r)
        /\ config.services # <<>>
        /\ config.services[1].name = <<"d", ";">>
        /\ resp[r].messages = <<<<ServiceInvalid, <<"d", ";">>>>>>

\* the statuses an endpoint accepts, as the config file states them
Accepted(k) ==
    {env.file.endpoints[k].statuses[j] : j \in 1..Len(env.file.endpoints[k].statuses)}
    \cup {env.file.endpoints[k].status}

\* C7: an endpoint that answers passes iff its status code is in the union of the
\* configured statuses list and the single status; a transport failure is a failure.
C7_EndpointStatusUnion ==
    \A r \in Requests : \A j \in 1..Len(req[r].probes) :
        LET p == req[r].probes[j]
        IN  p.kind = "endpoints" =>
              IF p.message[1] = EndpointUnreachable
              THEN ~p.pass
              ELSE /\ p.message[1] \in {EndpointUp, EndpointDown}
                   /\ p.pass <=> p.message[Len(p.message)] \in Accepted(p.idx)
                   /\ p.pass <=> p.message[1] = EndpointUp

C7_Witness ==
    /\ Len(config.endpoints) = 1
    /\ env.file.endpoints[1].status = 200
    /\ env.file.endpoints[1].statuses = <<301>>
    /\ resp[1].code = 200 /\ resp[1].messages[1][4] = 301
    /\ resp[2].code = 500 /\ resp[2].messages[1][5] = 404

\* C8: the process serves only with a validated configuration: the listen port it
\* binds (config value or HEALTH_LISTEN_PORT override) is in [1,65535], every port
\* target is in [1,65535] and every endpoint URL parses.
C8_ServesOnlyValidated ==
    pcSrv \in {"serving", "closed"} =>
        /\ listenAddrPort >= 1 /\ listenAddrPort <= 65535
        /\ \A k \in 1..Len(config.ports) :
              config.ports[k].port >= 1 /\ config.ports[k].port <= 65535
        /\ \A k \in 1..Len(config.endpoints) : urlParseOK(config.endpoints[k].url)

\* the target the k-th probe of a request is made on: ports, then services, then endpoints
TargetAt(k) ==
    IF k <= Len(config.ports) THEN <<"ports", k>>
    ELSE IF k <= Len(config.ports) + Len(config.services)
    THEN <<"services", k - Len(config.ports)>>
    ELSE <<"endpoints", k - Len(config.ports) - Len(config.services)>>

Names(message, stage, k) ==
    LET t == TargetsOf(stage)[k]
    IN  IF stage = "ports"
        THEN message \in {<<PortUp, t.name, t.port>>, <<PortDown, t.name, t.port>>}
        ELSE IF stage = "services"
        THEN /\ message[1] \in {ServiceInvalid, ServiceUp, ServiceDown}
             /\ message[2] = t.name
        ELSE /\ message[1] \in {EndpointUnreachable, EndpointUp, EndpointDown}
             /\ message[2] = t.name /\ message[3] = t.url

Passes(message) == message[1] \in {PortUp, ServiceUp, EndpointUp}

\* the number of messages when the checkers run in order and the first to fail is the last
RECURSIVE RunLength(_, _)
RunLength(m, stage) ==
    LET before == IF stage = "ports" THEN 0
                  ELSE IF stage = "services" THEN Len(config.ports)
                  ELSE Len(config.ports) + Len(config.services)
        n == Len(TargetsOf(stage))
        ok == \A k \in 1..n : before + k <= Len(m) /\ Passes(m[before + k])
    IN  IF stage = "endpoints" \/ ~ok THEN before + n
        ELSE RunLength(m, IF stage = "ports" THEN "services" ELSE "endpoints")

C10_ConfigNeverWritten == pcMain # "load" => config = Unmarshal(env.file)

C10_Witness ==
    /\ pcMain # "load"
    /\ \A r \in {1, 2} :
          \E j \in 1..Len(req[r].probes) :
              /\ req[r].probes[j].kind = "endpoints"
              /\ req[r].probes[j].message[1] = EndpointUp
    /\ req[1].pc = "endpoints" /\ req[2].pc = "endpoints"

====
